---- MODULE Spec2Model ----
(***************************************************************************)
(* Disaster Preparedness Assessment (streamlit_app.py): a four-step wizard *)
(* over the session state, the prompt template of process_assessment, the  *)
(* WatsonX call with its fallback to the demo result, and the script       *)
(* re-execution that every interaction triggers.                           *)
(***************************************************************************)
EXTENDS Integers, Sequences, FiniteSets, TLC

VARIABLES
    session_state,  \* st.session_state: a mapping with the keys "step" and "form_data"
    widget_state,   \* the values of the widgets rendered by the last script run, by label
    screen,         \* the elements the last script run emitted, in order
    prompt,         \* the local `prompt` of the last process_assessment() call (<<>> if none)
    calls,          \* the SDK calls the last interaction made, in order
    runs,           \* script executions so far in this session
    warnings,       \* st.warning() calls so far in this session
    event,          \* the interaction that triggered the last script execution
    left_dirty,     \* steps the user navigated away from with non-default values entered
    sdk_installed   \* whether `import ibm_watson_machine_learning` succeeds in this process

vars == <<session_state, widget_state, screen, prompt, calls, runs, warnings,
          event, left_dirty, sdk_installed>>

----------------------------------------------------------------------------
(* Bounds of the model *)

MaxNum == 2
MaxPick == 2
MaxRuns == 10

----------------------------------------------------------------------------
(* Constants of main() *)

DISASTER_TYPES == <<"Hurricane", "Earthquake", "Flood", "Wildfire", "Tornado">>
BUILDING_MATERIALS == <<"Wood", "Concrete", "Brick", "Steel">>
SPECIAL_CIRCUMSTANCES ==
    <<"Pregnant", "Elderly", "Underage", "Disabled", "Medical Conditions">>
GEAR_LIST ==
    <<"First Aid Kit", "Flashlight", "Batteries", "Radio", "Tools", "Blankets",
      "Medications", "Important Documents", "Cash", "Clothing",
      "Cell Phone Charger", "Multi-tool", "Emergency Contact List",
      "Smoke Alarm", "Fire Extinguisher", "Generator">>
VULNERABILITIES ==
    <<"Structural damage", "Poor insulation", "Weak foundation", "Old wiring",
      "Leaky roof", "Large windows">>
YES_NO == <<"Yes", "No">>

SLIDER_MIN == 1
SLIDER_MAX == 10
NUMBER_MIN == 1

(* Widget labels *)
W_TYPE == "Type of Disaster"
W_INTENSITY == "Intensity of Disaster (1-10)"
W_ZONE == "Are you currently in the disaster zone?"
W_FLOORS == "Number of Floors"
W_ROOMS == "Number of Rooms"
W_MATERIAL == "Building Material"
W_VULN == "Vulnerabilities"
W_COUNT == "Total Number of People"
W_SPECIAL == "Special Circumstances"
W_HASPETS == "Are there pets?"
W_PETS == "Describe the pets (type and count)"
W_FOOD == "Food Supply in Days"
W_WATER == "Water Supply in Liters"
W_GEAR == "Available Gear"

----------------------------------------------------------------------------
(* Python values and conversions *)

EmptyDict == <<>>

Get(d, k, default) == IF k \in DOMAIN d THEN d[k] ELSE default

SetItem(d, k, v) == [x \in (DOMAIN d) \cup {k} |-> IF x = k THEN v ELSE d[x]]

Digit == <<"1", "2", "3", "4", "5", "6", "7", "8", "9">>

RECURSIVE StrInt(_)
StrInt(n) ==
    IF n < 0 THEN "-" \o StrInt(0 - n)
    ELSE IF n = 0 THEN "0"
    ELSE IF n < 10 THEN Digit[n]
    ELSE StrInt(n \div 10) \o (IF n % 10 = 0 THEN "0" ELSE Digit[n % 10])

StrBool(b) == IF b THEN "True" ELSE "False"

StrStr(s) == s

RECURSIVE Join(_, _)
Join(sep, list) ==
    IF Len(list) = 0 THEN ""
    ELSE IF Len(list) = 1 THEN list[1]
    ELSE list[1] \o sep \o Join(sep, Tail(list))

(* f"{d.get(k, default)}" for a field whose values str() renders with conv *)
Fmt(d, k, conv(_), default) == IF k \in DOMAIN d THEN conv(d[k]) ELSE default

FmtList_first(d, k) == IF Len(Get(d, k, <<>>)) = 0 THEN "" ELSE Get(d, k, <<>>)[1]

(* f"{', '.join(d.get(k, []))}" *)
FmtList(d, k) == Join(", ", Get(d, k, <<>>))

----------------------------------------------------------------------------
(* Screen elements *)

Elem(kind, body) == [kind |-> kind, body |-> body]

Text(s) == [tag |-> "str", val |-> s]

Number(n) == [tag |-> "int", val |-> n]

Shows(scr, e) == \E i \in DOMAIN scr : scr[i] = e

----------------------------------------------------------------------------
(* display_demo_results *)

DEMO_RESULT ==
    [tag |-> "demo",
     scores |-> [shelter |-> 75, people |-> 85, supplies |-> 60],
     summary |-> "moderate-risk situation",
     precautions |->
        <<"Strengthen shelter vulnerabilities",
          "Increase water supplies (recommend 1 gallon per person per day)",
          "Add emergency communication devices",
          "Create an evacuation plan",
          "Stock additional non-perishable food items">>]

display_demo_results ==
    <<Elem("info", Text("Demo Mode: Would normally send to WatsonX for processing")),
      Elem("write", Text("### Sample Assessment Results")),
      Elem("write", DEMO_RESULT)>>

----------------------------------------------------------------------------
(* The prompt of process_assessment: the template's literal pieces and the *)
(* formatted values, in order; the prompt string is their concatenation.   *)

NA_empty == ""

NA == "N/A"

NO_PETS == "None"

(* The f-string of lines 109-136 over the four section mappings *)
PromptTemplate(disaster_data, shelter_data, people_data, supplies_data) ==
    <<"Disaster Assessment:",
      "Type: ", Fmt(disaster_data, "type", StrStr, NA),
      "Intensity: ", Fmt(disaster_data, "intensity", StrInt, NA),
      "Currently In Disaster: ", Fmt(disaster_data, "currently_in", StrBool, NA),
      "Shelter Details:",
      "Floors: ", Fmt(shelter_data, "floors", StrInt, NA),
      "Rooms: ", Fmt(shelter_data, "rooms", StrInt, NA),
      "Material: ", Fmt(shelter_data, "material", StrStr, NA),
      "Vulnerabilities: ", FmtList(shelter_data, "vulnerabilities"),
      "People:",
      "Total Count: ", Fmt(people_data, "count", StrInt, NA),
      "Special Circumstances: ", FmtList(people_data, "special_circumstances"),
      "Pets: ", Fmt(people_data, "pets_info", StrStr, NO_PETS),
      "Supplies:",
      "Food Supply: ", Fmt(supplies_data, "food_days", StrInt, NA), " days",
      "Water Supply: ", Fmt(supplies_data, "water_liters", StrInt, NA), " liters",
      "Available Gear: ", FmtList(supplies_data, "gear"),
      "Based on this information, please provide:",
      "1. Safety scores for shelter, people, and supplies (out of 100)",
      "2. A detailed summary of the risk level and situation",
      "3. Specific recommended precautions or actions, prioritized by importance",
      "4. Any additional considerations based on the special circumstances or pets">>

(* Lines 103-136: the sections read with {} as default, then formatted *)
FormatPrompt(form_data) ==
    PromptTemplate(Get(form_data, "disaster", EmptyDict),
                   Get(form_data, "shelter", EmptyDict),
                   Get(form_data, "people", EmptyDict),
                   Get(form_data, "supplies", EmptyDict))

(* The formatted value that follows the literal piece `label` in a prompt *)
Slot(p, label) ==
    LET i == CHOOSE j \in DOMAIN p : p[j] = label IN p[i + 1]

(* The value occurs in the prompt as one of its formatted pieces *)
Embeds(p, s) == \E j \in DOMAIN p : p[j] = s

----------------------------------------------------------------------------
(* The remote service: what model.generate_text(prompt) can return *)

GEN_TEXTS == {"X", "Y"}

Entry(has, t) == [has_text |-> has, generated_text |-> t]

Envelope(rs) == [tag |-> "dict", has_results |-> TRUE, results |-> rs]

ENTRIES == {Entry(TRUE, t) : t \in GEN_TEXTS} \cup {Entry(FALSE, "")}

Responses ==
    {Text(t) : t \in GEN_TEXTS}
    \cup {[tag |-> "dict", has_results |-> FALSE, results |-> <<>>]}
    \cup {Envelope(<<>>)}
    \cup {Envelope(<<e>>) : e \in ENTRIES}
    \cup {Envelope(<<e, Entry(TRUE, "Y")>>) : e \in ENTRIES}

(* What the environment does at one submission *)
Outcomes ==
    [init : {"ok", "raise"}, call : {"raise"}, response : {Text("X")}]
    \cup [init : {"ok"}, call : {"ok"}, response : Responses]

NoOutcome == [init |-> "ok", call |-> "raise", response |-> Text("X")]

(* An SDK call and how it ended *)
Call(fn, raised, returned) == [fn |-> fn, raised |-> raised, returned |-> returned]

(* init_watsonx: None without the SDK, else Model(...) or its exception *)
init_watsonx(available, env) ==
    IF ~available THEN [raised |-> FALSE, model |-> "None"]
    ELSE IF env.init = "raise" THEN [raised |-> TRUE, model |-> "None"]
    ELSE [raised |-> FALSE, model |-> "Model"]

ExtractText_last(response) ==
    IF response.tag = "dict" /\ response.has_results /\ Len(response.results) > 0
       /\ response.results[Len(response.results)].has_text
    THEN [raised |-> FALSE, error |-> "",
          value |-> Text(response.results[Len(response.results)].generated_text)]
    ELSE [raised |-> FALSE, error |-> "", value |-> response]

(* Lines 148-151: the generated text, or the exception the lookup raises *)
ExtractText(response) ==
    IF response.tag = "dict" /\ response.has_results
    THEN IF Len(response.results) = 0
         THEN [raised |-> TRUE, error |-> "IndexError", value |-> Text("")]
         ELSE IF ~response.results[1].has_text
         THEN [raised |-> TRUE, error |-> "KeyError", value |-> Text("")]
         ELSE [raised |-> FALSE, error |-> "",
               value |-> Text(response.results[1].generated_text)]
    ELSE [raised |-> FALSE, error |-> "", value |-> response]

LiveResult(generated_text) ==
    <<Elem("markdown", Text("<style>")),
      Elem("markdown", Text("<div class=assessment-box>")),
      Elem("write", Text("### Assessment Results")),
      Elem("write", generated_text),
      Elem("markdown", Text("</div>"))>>

TryResult(raised, error, cs, out) ==
    [raised |-> raised, error |-> error, calls |-> cs, out |-> out]

(* Lines 147-168: the text taken from the response x and displayed *)
TryDisplay(cs, x) ==
    IF x.raised THEN TryResult(TRUE, x.error, cs, <<>>)
    ELSE TryResult(FALSE, "", cs, LiveResult(x.value))

(* Line 145: model.generate_text(prompt) *)
TryGenerate(c1, env) ==
    IF env.call = "raise"
    THEN TryResult(TRUE, "ApiRequestFailure",
                   <<c1, Call("generate_text", TRUE, Text(""))>>, <<>>)
    ELSE TryDisplay(<<c1, Call("generate_text", FALSE, env.response)>>,
                    ExtractText(env.response))

(* Lines 140-142: model = init_watsonx(), None is an error *)
TryInit(m, env) ==
    IF m.raised
    THEN TryResult(TRUE, "WMLClientError", <<Call("init_watsonx", TRUE, Text("None"))>>, <<>>)
    ELSE IF m.model = "None"
    THEN TryResult(TRUE, "Failed to initialize WatsonX model",
                   <<Call("init_watsonx", FALSE, Text("None"))>>, <<>>)
    ELSE TryGenerate(Call("init_watsonx", FALSE, Text("Model")), env)

(* The body of the try block, lines 140-168 *)
TryBody(available, env) == TryInit(init_watsonx(available, env), env)

Catches_narrow(error) == error \in {"IndexError", "KeyError"}

(* `except Exception`: every error the try block raises is an Exception *)
Catches(error) == TRUE

(* The except block, lines 171-173 *)
Fallback(error) ==
    <<Elem("error", Text("Error processing assessment: " \o error)),
      Elem("info", Text("Falling back to demo mode..."))>>
    \o display_demo_results

(* What the page shows for an exception that leaves the script *)
Uncaught(error) == <<Elem("exception", Text(error))>>

(* Lines 139-173: what the try statement leaves on the page *)
TryExcept(t) ==
    IF ~t.raised THEN t.out
    ELSE IF Catches(t.error) THEN t.out \o Fallback(t.error)
    ELSE t.out \o Uncaught(t.error)

Assessed(p, cs, out) == [prompt |-> p, calls |-> cs, out |-> out]

Attempted(p, t) == Assessed(p, t.calls, TryExcept(t))

(* process_assessment(): the prompt, the SDK calls made, the elements emitted *)
process_assessment(form_data, available, env) ==
    IF available
    THEN Attempted(FormatPrompt(form_data), TryBody(available, env))
    ELSE Assessed(FormatPrompt(form_data), <<>>, display_demo_results)

----------------------------------------------------------------------------
(* Widgets. None is given a key or a value, so each returns the value the  *)
(* front end holds for it, or its default when it was not on the page in   *)
(* the previous script run.                                                *)

selectbox(ws, label, options) == Get(ws, label, options[1])

slider(ws, label, min_value) == Get(ws, label, min_value)

radio(ws, label, options) == Get(ws, label, options[1])

number_input(ws, label, min_value) == Get(ws, label, min_value)

multiselect(ws, label) == Get(ws, label, <<>>)

checkbox(ws, label) == Get(ws, label, FALSE)

text_input(ws, label) == Get(ws, label, "")

Button(label) == Elem("button", Text(label))

(* The widgets each step puts on the page, with the values they return *)
Step1Widgets(ws) ==
    (W_TYPE :> selectbox(ws, W_TYPE, DISASTER_TYPES))
    @@ (W_INTENSITY :> slider(ws, W_INTENSITY, SLIDER_MIN))
    @@ (W_ZONE :> radio(ws, W_ZONE, YES_NO))

Step2Widgets(ws) ==
    (W_FLOORS :> number_input(ws, W_FLOORS, NUMBER_MIN))
    @@ (W_ROOMS :> number_input(ws, W_ROOMS, NUMBER_MIN))
    @@ (W_MATERIAL :> selectbox(ws, W_MATERIAL, BUILDING_MATERIALS))
    @@ (W_VULN :> multiselect(ws, W_VULN))

Step3Widgets(ws) ==
    LET has_pets == checkbox(ws, W_HASPETS)
        base == (W_COUNT :> number_input(ws, W_COUNT, NUMBER_MIN))
                @@ (W_SPECIAL :> multiselect(ws, W_SPECIAL))
                @@ (W_HASPETS :> has_pets)
    IN  IF has_pets THEN base @@ (W_PETS :> text_input(ws, W_PETS)) ELSE base

Step4Widgets(ws) ==
    (W_FOOD :> number_input(ws, W_FOOD, NUMBER_MIN))
    @@ (W_WATER :> number_input(ws, W_WATER, NUMBER_MIN))
    @@ (W_GEAR :> multiselect(ws, W_GEAR))

(* The sub-mapping each step assigns to form_data *)
DisasterSection(w) ==
    [type |-> w[W_TYPE], intensity |-> w[W_INTENSITY],
     currently_in |-> (w[W_ZONE] = "Yes")]

ShelterSection(w) ==
    [floors |-> w[W_FLOORS], rooms |-> w[W_ROOMS], material |-> w[W_MATERIAL],
     vulnerabilities |-> w[W_VULN]]

PeopleSection(w) ==
    [count |-> w[W_COUNT], special_circumstances |-> w[W_SPECIAL],
     has_pets |-> w[W_HASPETS],
     pets_info |-> IF w[W_HASPETS] THEN w[W_PETS] ELSE ""]

SuppliesSection(w) ==
    [food_days |-> w[W_FOOD], water_liters |-> w[W_WATER], gear |-> w[W_GEAR]]

SectionOf_shifted(s) ==
    CASE s = 1 -> "disaster" [] s = 2 -> "people" [] s = 3 -> "shelter"
      [] s = 4 -> "supplies" [] OTHER -> "none"

SectionOf(s) ==
    CASE s = 1 -> "disaster" [] s = 2 -> "shelter" [] s = 3 -> "people"
      [] s = 4 -> "supplies" [] OTHER -> "none"

StepWidgets(s, ws) ==
    CASE s = 1 -> Step1Widgets(ws) [] s = 2 -> Step2Widgets(ws)
      [] s = 3 -> Step3Widgets(ws) [] s = 4 -> Step4Widgets(ws)
      [] OTHER -> EmptyDict

StepSection(s, w) ==
    CASE s = 1 -> DisasterSection(w) [] s = 2 -> ShelterSection(w)
      [] s = 3 -> PeopleSection(w) [] s = 4 -> SuppliesSection(w)
      [] OTHER -> EmptyDict

(* The buttons each step puts on the page *)
StepButtons(s) ==
    CASE s = 1 -> <<Button("Next")>>
      [] s = 2 -> <<Button("Previous"), Button("Next")>>
      [] s = 3 -> <<Button("Previous"), Button("Next")>>
      [] s = 4 -> <<Button("Previous"), Button("Submit")>>
      [] OTHER -> <<>>

Subheader(s) ==
    CASE s = 1 -> "Step 1: Disaster Information"
      [] s = 2 -> "Step 2: Shelter Information"
      [] s = 3 -> "Step 3: People Information"
      [] s = 4 -> "Step 4: Supplies Information"
      [] OTHER -> ""

----------------------------------------------------------------------------
(* handle_navigation: the new step; st.rerun() then restarts the script *)
handle_navigation_no_prev(s, direction) ==
    IF direction = "next" THEN s + 1 ELSE s

handle_navigation(s, direction) ==
    IF direction = "next" THEN s + 1
    ELSE IF direction = "prev" THEN s - 1
    ELSE s

Progress_off_by_one(s) == s * 25

(* progress = (st.session_state.step - 1) * 25 *)
Progress(s) == (s - 1) * 25

WriteSection_reset(fd, s, w) == SetItem(EmptyDict, SectionOf(s), StepSection(s, w))

(* st.session_state.form_data[<section>] = {...} *)
WriteSection(fd, s, w) == SetItem(fd, SectionOf(s), StepSection(s, w))

FrontEndState_kept(rendered, ws) == rendered @@ ws

(* The widget values the front end holds after a run: only those of the    *)
(* widgets the run put on the page; a widget that was not rendered loses   *)
(* its value.                                                              *)
FrontEndState(rendered, ws) == rendered

(* Which call, if any, the pressed button makes at step s *)
OnClick(s, click) ==
    CASE click = "Next" /\ s \in {1, 2, 3} -> "next"
      [] click = "Previous" /\ s \in {2, 3, 4} -> "prev"
      [] click = "Submit" /\ s = 4 -> "submit"
      [] OTHER -> "none"

SetDefault(d, k, v) == IF k \in DOMAIN d THEN d ELSE SetItem(d, k, v)

(* Lines 190-193 *)
InitSession(ss) == SetDefault(SetDefault(ss, "step", 1), "form_data", EmptyDict)

(* Lines 187 and 205-207, and the subheader of the step *)
Page(s) ==
    <<Elem("title", Text("Disaster Preparedness Assessment")),
      Elem("progress", Number(Progress(s)))>>
    \o (IF s \in 1..4 THEN <<Elem("subheader", Text(Subheader(s)))>> ELSE <<>>)

RunResult(ss, ws, scr, p, cs, rerun) ==
    [ss |-> ss, ws |-> ws, screen |-> scr, prompt |-> p, calls |-> cs, rerun |-> rerun]

Submitted(ss, ws, scr, pa) ==
    RunResult(ss, ws, scr \o pa.out, pa.prompt, pa.calls, FALSE)

(* The buttons of step s: `do` is what the pressed one calls *)
main_buttons(s, ss, ws, do, available, env) ==
    IF do \in {"next", "prev"}
    THEN RunResult(SetItem(ss, "step", handle_navigation(s, do)), ws, Page(s),
                   <<>>, <<>>, TRUE)
    ELSE IF do = "submit"
    THEN Submitted(ss, ws, Page(s) \o StepButtons(s),
                   process_assessment(ss["form_data"], available, env))
    ELSE RunResult(ss, ws, Page(s) \o StepButtons(s), <<>>, <<>>, FALSE)

(* The branch of step s: its widgets returned w, its section is assigned *)
main_step(s, ss, w, ws, click, available, env) ==
    main_buttons(s,
                 IF s \in 1..4
                 THEN SetItem(ss, "form_data", WriteSection(ss["form_data"], s, w))
                 ELSE ss,
                 FrontEndState(w, ws), OnClick(s, click), available, env)

main_body(ss, ws, click, available, env) ==
    main_step(ss["step"], ss, StepWidgets(ss["step"], ws), ws, click, available, env)

(* main(): one execution of the script body for the session ss, the widget *)
(* values ws the front end sent, and the button `click` it reports pressed *)
main(ss, ws, click, available, env) ==
    main_body(InitSession(ss), ws, click, available, env)

WATSONX_AVAILABLE_always(installed) == TRUE

(* Lines 9-16, executed at the top of every script run *)
WATSONX_AVAILABLE(installed) == installed

ImportWarning(installed) ==
    IF WATSONX_AVAILABLE(installed) THEN <<>>
    ELSE <<Elem("warning",
                Text("WatsonX integration not available. Installing in demo mode."))>>

ScriptResult(top, m) ==
    [ss |-> m.ss, ws |-> m.ws, screen |-> top \o m.screen, prompt |-> m.prompt,
     calls |-> m.calls, rerun |-> m.rerun, warnings |-> Len(top)]

(* One script execution, top to bottom *)
Script(ss, ws, click, installed, env) ==
    ScriptResult(ImportWarning(installed),
                 main(ss, ws, click, WATSONX_AVAILABLE(installed), env))

(* The page shows what the last run emitted *)
AfterRerun(r1, r2) ==
    [ss |-> r2.ss, ws |-> r2.ws, screen |-> r2.screen, prompt |-> r2.prompt,
     calls |-> r1.calls \o r2.calls, executions |-> 2,
     warnings |-> r1.warnings + r2.warnings]

(* st.rerun(): the script runs again with no button pressed *)
Rerunning(r1, installed, env) ==
    IF r1.rerun
    THEN AfterRerun(r1, Script(r1.ss, r1.ws, "none", installed, env))
    ELSE [ss |-> r1.ss, ws |-> r1.ws, screen |-> r1.screen, prompt |-> r1.prompt,
          calls |-> r1.calls, executions |-> 1, warnings |-> r1.warnings]

(* One interaction: the script run it triggers and, when that run ends in  *)
(* st.rerun(), the run that follows                                        *)
Interaction(ss, ws, click, installed, env) ==
    Rerunning(Script(ss, ws, click, installed, env), installed, env)

----------------------------------------------------------------------------
(* What the user can enter *)

PET_TEXTS == {"", "2 dogs"}

Min(a, b) == IF a < b THEN a ELSE b

Picks(options) == {options[i] : i \in 1..Min(MaxPick, Len(options))}

Remove(list, i) == SubSeq(list, 1, i - 1) \o SubSeq(list, i + 1, Len(list))

(* A multiselect returns the chosen options in the order they were chosen *)
Selections(options, cur) ==
    {Append(cur, o) : o \in {x \in Picks(options) : \A i \in DOMAIN cur : cur[i] # x}}
    \cup {Remove(cur, i) : i \in DOMAIN cur}

Choices(label, cur) ==
    CASE label = W_TYPE -> Picks(DISASTER_TYPES)
      [] label = W_INTENSITY -> SLIDER_MIN..Min(SLIDER_MAX, MaxNum)
      [] label = W_ZONE -> Picks(YES_NO)
      [] label \in {W_FLOORS, W_ROOMS, W_COUNT, W_FOOD, W_WATER} -> NUMBER_MIN..MaxNum
      [] label = W_MATERIAL -> Picks(BUILDING_MATERIALS)
      [] label = W_VULN -> Selections(VULNERABILITIES, cur)
      [] label = W_SPECIAL -> Selections(SPECIAL_CIRCUMSTANCES, cur)
      [] label = W_GEAR -> Selections(GEAR_LIST, cur)
      [] label = W_HASPETS -> BOOLEAN
      [] label = W_PETS -> PET_TEXTS
      [] OTHER -> {}

----------------------------------------------------------------------------
(* The session *)

step == session_state["step"]

form_data == session_state["form_data"]

DefaultSection(s) == StepSection(s, StepWidgets(s, EmptyDict))

Apply(r, ev) ==
    /\ session_state' = r.ss
    /\ widget_state' = r.ws
    /\ screen' = r.screen
    /\ prompt' = r.prompt
    /\ calls' = r.calls
    /\ runs' = runs + r.executions
    /\ warnings' = warnings + r.warnings
    /\ event' = ev
    /\ left_dirty' =
          IF r.ss["step"] # step /\ form_data[SectionOf(step)] # DefaultSection(step)
          THEN left_dirty \cup {step} ELSE left_dirty
    /\ UNCHANGED sdk_installed

Init ==
    /\ sdk_installed \in BOOLEAN
    /\ \E r \in {Interaction(EmptyDict, EmptyDict, "none", sdk_installed, NoOutcome)} :
           /\ session_state = r.ss
           /\ widget_state = r.ws
           /\ screen = r.screen
           /\ prompt = r.prompt
           /\ calls = r.calls
           /\ runs = r.executions
           /\ warnings = r.warnings
    /\ event = "load"
    /\ left_dirty = {}

(* The user changes the value of one widget on the page *)
EditWidget ==
    /\ runs + 1 <= MaxRuns
    /\ \E label \in DOMAIN widget_state :
         \E v \in Choices(label, widget_state[label]) \ {widget_state[label]} :
            Apply(Interaction(session_state, [widget_state EXCEPT ![label] = v],
                              "none", sdk_installed, NoOutcome), "edit")

(* The user reruns the script without changing anything *)
Rerun ==
    /\ runs + 1 <= MaxRuns
    /\ Apply(Interaction(session_state, widget_state, "none", sdk_installed,
                         NoOutcome), "rerun")

ClickNext ==
    /\ Shows(screen, Button("Next"))
    /\ runs + 2 <= MaxRuns
    /\ Apply(Interaction(session_state, widget_state, "Next", sdk_installed,
                         NoOutcome), "next")

ClickPrevious ==
    /\ Shows(screen, Button("Previous"))
    /\ runs + 2 <= MaxRuns
    /\ Apply(Interaction(session_state, widget_state, "Previous", sdk_installed,
                         NoOutcome), "prev")

ClickSubmit ==
    /\ Shows(screen, Button("Submit"))
    /\ runs + 1 <= MaxRuns
    /\ \E env \in Outcomes :
         Apply(Interaction(session_state, widget_state, "Submit", sdk_installed, env),
               "submit")

Next == EditWidget \/ Rerun \/ ClickNext \/ ClickPrevious \/ ClickSubmit

Spec == Init /\ [][Next]_vars

----------------------------------------------------------------------------
(* The formatter and the submission path on drafts of any shape: each      *)
(* section is absent or holds what its step can assign                     *)

SampleSections(s) ==
    {DefaultSection(s)}
    \cup {StepSection(s, StepWidgets(s, [StepWidgets(s, EmptyDict) EXCEPT ![l] = v])) :
            <<l, v>> \in UNION {{<<l2, v2>> : v2 \in Choices(l2, StepWidgets(s, EmptyDict)[l2])} :
                                 l2 \in DOMAIN StepWidgets(s, EmptyDict)}}

RECURSIVE Drafts(_)
Drafts(k) ==
    IF k = 0 THEN {EmptyDict}
    ELSE LET rest == Drafts(k - 1)
         IN  rest \cup {SetItem(d, SectionOf(k), v) : <<d, v>> \in rest \X SampleSections(k)}

FormatterInit ==
    /\ sdk_installed \in BOOLEAN
    /\ \E d \in Drafts(4) : session_state = SetItem(SetItem(EmptyDict, "step", 4), "form_data", d)
    /\ widget_state = EmptyDict
    /\ screen = <<>>
    /\ prompt = <<>>
    /\ calls = <<>>
    /\ runs = 0
    /\ warnings = 0
    /\ event = "draft"
    /\ left_dirty = {}

(* process_assessment() called on the draft *)
Process ==
    /\ event = "draft"
    /\ \E env \in Outcomes :
         \E r \in {process_assessment(form_data, WATSONX_AVAILABLE(sdk_installed), env)} :
             /\ prompt' = r.prompt
             /\ calls' = r.calls
             /\ screen' = r.out
    /\ event' = "process"
    /\ UNCHANGED <<session_state, widget_state, runs, warnings, left_dirty, sdk_installed>>

FormatterSpec == FormatterInit /\ [][Process]_vars

----------------------------------------------------------------------------
(* Properties *)

SECTIONS == <<"disaster", "shelter", "people", "supplies">>

Has(sec) == sec \in DOMAIN form_data

ShowsStep(scr, s) ==
    /\ Shows(scr, Elem("subheader", Text(Subheader(s))))
    /\ Shows(scr, Elem("progress", Number((s - 1) * 25)))

ShowsDemo(scr) ==
    /\ \E i \in DOMAIN scr :
         /\ scr[i].kind = "write"
         /\ scr[i].body.tag = "demo"
         /\ scr[i].body.scores = [shelter |-> 75, people |-> 85, supplies |-> 60]
         /\ scr[i].body.precautions =
              <<"Strengthen shelter vulnerabilities",
                "Increase water supplies (recommend 1 gallon per person per day)",
                "Add emergency communication devices",
                "Create an evacuation plan",
                "Stock additional non-perishable food items">>
    /\ \E i \in DOMAIN scr :
         /\ scr[i].kind = "info"
         /\ scr[i].body = Text("Demo Mode: Would normally send to WatsonX for processing")

ShowsLive(scr) == Shows(scr, Elem("write", Text("### Assessment Results")))

ShowsException(scr) == \E i \in DOMAIN scr : scr[i].kind = "exception"

GenerateReturned(r) ==
    \E i \in DOMAIN calls :
        calls[i].fn = "generate_text" /\ ~calls[i].raised /\ calls[i].returned = r

(* The step taken is the interaction ev: every interaction runs the script *)
Did(ev) == runs' # runs /\ event' = ev

(* C1: "Next" at step s (1 <= s < 4) leaves the session at step s+1 and     *)
(* "Previous" at step s (1 < s <= 4) leaves it at step s-1; both buttons    *)
(* are offered exactly on those steps and the page then shows the new step. *)
C1_Navigation ==
    [][/\ Did("next") => (step \in 1..3 /\ step' = step + 1 /\ ShowsStep(screen', step + 1))
       /\ Did("prev") => (step \in 2..4 /\ step' = step - 1 /\ ShowsStep(screen', step - 1))
       /\ Shows(screen, Button("Next")) <=> step \in 1..3
       /\ Shows(screen, Button("Previous")) <=> step \in 2..4]_vars

C1_Witness == event = "prev" /\ step = 3 /\ ShowsStep(screen, 3)

(* C2: a submission made without the SDK, or whose model initialization or  *)
(* remote call raises, shows the demo result (scores 75/85/60, the five     *)
(* precautions) with the demo notice; no exception reaches the page; every  *)
(* submission shows either the live result or the demo result.              *)
C2_Fallback ==
    event = "submit" =>
        /\ (~sdk_installed \/ \E i \in DOMAIN calls : calls[i].raised)
              => (ShowsDemo(screen) /\ ~ShowsLive(screen))
        /\ (sdk_installed /\ \E i \in DOMAIN calls : calls[i].raised)
              => \E i \in DOMAIN screen : screen[i].kind = "error"
        /\ ~ShowsException(screen)
        /\ ShowsDemo(screen) \/ ShowsLive(screen)

C2_Witness ==
    /\ event = "submit"
    /\ sdk_installed
    /\ \E i \in DOMAIN calls : calls[i].fn = "generate_text" /\ calls[i].raised
    /\ ShowsDemo(screen)

(* C3: when generate_text returns an envelope whose first result carries    *)
(* the text X, the assessment shown is exactly X; when it returns a value   *)
(* without a results list, the assessment shown is that value.              *)
C3_Normalization ==
    event = "submit" =>
        \A i \in DOMAIN calls :
            (calls[i].fn = "generate_text" /\ ~calls[i].raised) =>
                LET r == calls[i].returned
                    shown == {screen[j].body : j \in {k \in DOMAIN screen :
                                 screen[k].kind = "write"
                                 /\ screen[k].body # Text("### Assessment Results")}}
                IN  /\ (r.tag = "dict" /\ r.has_results /\ Len(r.results) > 0
                        /\ r.results[1].has_text)
                          => shown = {Text(r.results[1].generated_text)}
                    /\ ~(r.tag = "dict" /\ r.has_results) => shown = {r}

C3_Witness ==
    /\ event = "submit"
    /\ GenerateReturned(Envelope(<<Entry(TRUE, "X"), Entry(TRUE, "Y")>>))
    /\ Shows(screen, Elem("write", Text("X")))

C3_WitnessRaw ==
    /\ event = "submit"
    /\ GenerateReturned(Text("Y"))
    /\ Shows(screen, Elem("write", Text("Y")))

C4_Case == event = "process" /\ DOMAIN form_data = {"disaster"}

C4_Common ==
    /\ prompt # <<>>
    /\ Slot(prompt, "Floors: ") = "N/A"
    /\ Slot(prompt, "Rooms: ") = "N/A"
    /\ Slot(prompt, "Material: ") = "N/A"
    /\ Slot(prompt, "Total Count: ") = "N/A"
    /\ Slot(prompt, "Food Supply: ") = "N/A"
    /\ Slot(prompt, "Water Supply: ") = "N/A"
    /\ Slot(prompt, "Vulnerabilities: ") = ""
    /\ Slot(prompt, "Special Circumstances: ") = ""
    /\ Slot(prompt, "Available Gear: ") = ""
    /\ Slot(prompt, "Type: ") = form_data["disaster"].type

(* C4 as stated: with only the disaster section present the prompt is       *)
(* produced, every scalar field of shelter, people and supplies, pets_info  *)
(* included, renders as "N/A" and every list field as the empty string.     *)
C4_Original == C4_Case => (C4_Common /\ Slot(prompt, "Pets: ") = "N/A")

(* C4 amended: with only the disaster section present the prompt is         *)
(* produced; floors, rooms, material, count, food_days and water_liters     *)
(* render as "N/A", pets_info renders as "None", and vulnerabilities,       *)
(* special_circumstances and gear render as the empty string.               *)
C4_PartialDraft == C4_Case => (C4_Common /\ Slot(prompt, "Pets: ") = "None")

C4_Witness == C4_Case /\ Slot(prompt, "Pets: ") = "None" /\ Slot(prompt, "Floors: ") = "N/A"

C5_Rendered ==
    LET d == form_data["disaster"]
        h == form_data["shelter"]
        q == form_data["people"]
        u == form_data["supplies"]
    IN  /\ Slot(prompt, "Type: ") = d.type
        /\ Slot(prompt, "Intensity: ") = StrInt(d.intensity)
        /\ Slot(prompt, "Currently In Disaster: ") = (IF d.currently_in THEN "True" ELSE "False")
        /\ Slot(prompt, "Floors: ") = StrInt(h.floors)
        /\ Slot(prompt, "Rooms: ") = StrInt(h.rooms)
        /\ Slot(prompt, "Material: ") = h.material
        /\ Slot(prompt, "Vulnerabilities: ") = Join(", ", h.vulnerabilities)
        /\ Slot(prompt, "Total Count: ") = StrInt(q.count)
        /\ Slot(prompt, "Special Circumstances: ") = Join(", ", q.special_circumstances)
        /\ Slot(prompt, "Pets: ") = q.pets_info
        /\ Slot(prompt, "Food Supply: ") = StrInt(u.food_days)
        /\ Slot(prompt, "Water Supply: ") = StrInt(u.water_liters)
        /\ Slot(prompt, "Available Gear: ") = Join(", ", u.gear)

(* C5 as stated: the prompt of a submission embeds the value of every       *)
(* entered field, has_pets included.                                        *)
C5_Original ==
    event = "submit" =>
        /\ C5_Rendered
        /\ Embeds(prompt, IF form_data["people"].has_pets THEN "True" ELSE "False")

(* C5 amended: the prompt of a submission embeds the value of every entered *)
(* field except has_pets, which the template does not render: type,         *)
(* intensity, currently_in, floors, rooms, material, vulnerabilities,       *)
(* count, special_circumstances, pets_info, food_days, water_liters, gear.  *)
C5_EmbedsFields == event = "submit" => C5_Rendered

C5_Witness ==
    /\ event = "submit"
    /\ form_data["people"].has_pets
    /\ form_data["people"].pets_info = "2 dogs"
    /\ Slot(prompt, "Pets: ") = "2 dogs"

(* C6: the step is always one of 1, 2, 3, 4 and the page shows exactly one  *)
(* progress value, (step-1)*25, which is one of 0, 25, 50, 75.              *)
C6_StepRange ==
    /\ step \in {1, 2, 3, 4}
    /\ \A i \in DOMAIN screen :
          screen[i].kind = "progress" =>
              /\ screen[i].body = Number((step - 1) * 25)
              /\ screen[i].body.val \in {0, 25, 50, 75}
    /\ Cardinality({i \in DOMAIN screen : screen[i].kind = "progress"}) = 1

C6_Witness == step = 4 /\ event = "next" /\ Shows(screen, Elem("progress", Number(75)))

(* C7: the sections are populated in the order disaster, shelter, people,   *)
(* supplies: a present section has all earlier ones present, the sections   *)
(* of all steps up to the current one are present, and at a submission all  *)
(* four are present.                                                        *)
C7_Order ==
    /\ \A k \in 1..4 :
          /\ Has(SECTIONS[k]) => \A j \in 1..k : Has(SECTIONS[j])
          /\ step >= k => Has(SECTIONS[k])
    /\ DOMAIN form_data \subseteq {SECTIONS[k] : k \in 1..4}
    /\ event = "submit" => \A k \in 1..4 : Has(SECTIONS[k])

C7_Witness == step = 2 /\ event = "edit" /\ DOMAIN form_data = {"disaster", "shelter"}

C7_WitnessSubmit == event = "submit" /\ \A k \in 1..4 : Has(SECTIONS[k])

C8_Defaults(s) ==
    CASE s = 1 -> [type |-> "Hurricane", intensity |-> 1, currently_in |-> TRUE]
      [] s = 2 -> [floors |-> 1, rooms |-> 1, material |-> "Wood", vulnerabilities |-> <<>>]
      [] s = 3 -> [count |-> 1, special_circumstances |-> <<>>, has_pets |-> FALSE,
                   pets_info |-> ""]
      [] s = 4 -> [food_days |-> 1, water_liters |-> 1, gear |-> <<>>]

(* C8: when the user returns by Next or Previous to a step that was left    *)
(* with non-default values, the step's widgets are back at their defaults   *)
(* and the step's section of form_data holds the default values.            *)
C8_Revisit ==
    (event \in {"next", "prev"} /\ step \in left_dirty) =>
        /\ form_data[SECTIONS[step]] = C8_Defaults(step)
        /\ StepSection(step, widget_state) = C8_Defaults(step)

C8_Witness ==
    /\ event = "prev"
    /\ step = 1
    /\ 1 \in left_dirty
    /\ form_data["disaster"] = [type |-> "Hurricane", intensity |-> 1, currently_in |-> TRUE]

(* C9 as stated: without the SDK the warning is issued exactly once in the  *)
(* session.                                                                 *)
C9_Original == ~sdk_installed => warnings = 1

(* C9 amended: without the SDK every script execution detects it again and  *)
(* issues the warning again, so every page shows it; no submission attempts *)
(* model initialization or a remote call, and each shows the demo result.   *)
C9_EveryRun ==
    ~sdk_installed =>
        /\ warnings = runs
        /\ Shows(screen, Elem("warning",
              Text("WatsonX integration not available. Installing in demo mode.")))
        /\ calls = <<>>
        /\ event = "submit" => (ShowsDemo(screen) /\ ~ShowsLive(screen)
                                /\ \A i \in DOMAIN screen : screen[i].kind # "error")

C9_Witness == ~sdk_installed /\ event = "submit" /\ warnings = runs /\ runs >= 8

(* C10: an edit, a rerun or a submission at step s leaves the step and      *)
(* every section other than that of step s as they were, and the section    *)
(* of step s holds exactly the current widget values; Next and Previous     *)
(* change the step and leave every section but that of the new step as it   *)
(* was.                                                                     *)
C10_Frame ==
    [][/\ (Did("edit") \/ Did("rerun") \/ Did("submit")) =>
             /\ step' = step
             /\ DOMAIN form_data' = DOMAIN form_data
             /\ \A k \in 1..4 :
                   (k # step /\ Has(SECTIONS[k])) => form_data'[SECTIONS[k]] = form_data[SECTIONS[k]]
             /\ form_data'[SECTIONS[step]] = StepSection(step, widget_state')
       /\ (Did("next") \/ Did("prev")) =>
             /\ step' # step
             /\ \A k \in 1..4 :
                   (k # step' /\ Has(SECTIONS[k])) =>
                       /\ SECTIONS[k] \in DOMAIN form_data'
                       /\ form_data'[SECTIONS[k]] = form_data[SECTIONS[k]]]_vars

C10_Witness ==
    /\ event = "submit"
    /\ form_data["disaster"].intensity = 2
    /\ Slot(prompt, "Intensity: ") = "2"

====
